---- MODULE Spec2Model ----
(***************************************************************************)
(* Model of src/train.py: the training driver of the sign-symmetry         *)
(* repository.  main() creates a model, splits its parameters into         *)
(* last-layer / non-last-layer (and bias / non-bias) parameter groups,     *)
(* builds the optimizer, optionally resumes from a checkpoint and then     *)
(* runs the epoch loop: adjust_learning_rate, train, validate,             *)
(* save_checkpoint.                                                        *)
(*                                                                         *)
(* Conventions of the model                                                *)
(*  - a Python string is a TLA+ string; startswith and rfind are computed  *)
(*    character by character with Len and SubSeq;                          *)
(*  - a parameter object is a record [id, val]: `is` compares id, an       *)
(*    equality of tensors would compare val;                               *)
(*  - a learning rate is an exact decimal [m, e] standing for m * 10^-e,   *)
(*    so that lr0 * (0.1 ** n) is computed without rounding;               *)
(*  - the weights and the optimizer's momentum buffers are version         *)
(*    numbers that every optimizer.step() advances;                        *)
(*  - a raised Python exception ends the process: pc = "failed" and err    *)
(*    holds the exception's name.                                          *)
(***************************************************************************)
EXTENDS Integers, Sequences, FiniteSets, TLC

VARIABLES
    argv,       \* the command line of the first process (never changes)
    args,       \* parser.parse_args() of the running process (start_epoch is rewritten on resume)
    net,        \* what models.__dict__[arch] holds: availability and the parameters it would create
    pc,         \* position of the running process in main()/train()
    err,        \* name of the exception that ended the process, "" if none
    model,      \* the constructed model
    model_last_named_parameters,
    model_nonlast_named_parameters,
    param_groups,   \* the list main() builds (lines 202-236)
    lrs,            \* the base learning rate of every group (line 236)
    optimizer,      \* BMNSC_SGD instance: its param_groups and momentum state
    aliased,        \* optimizer.param_groups are still the dicts of param_groups
    best_prec1,     \* module global (line 108)
    epoch,          \* loop variable of line 337
    i,              \* batch index of train() (line 372)
    grad,           \* state of the .grad buffers: "none", "zero" or "fresh"
    files,          \* the file system: path -> content
    runs,           \* number of times the process was stopped and started again
    events,         \* history: what happened in the current epoch, in order
    trained,        \* history: epochs whose checkpoint was written, over all runs
    ckpt_live       \* history: the live state captured when the last checkpoint was written

vars == <<argv, args, net, pc, err, model, model_last_named_parameters,
          model_nonlast_named_parameters, param_groups, lrs, optimizer, aliased,
          best_prec1, epoch, i, grad, files, runs, events, trained, ckpt_live>>

(***************************************************************************)
(* Bounds of the model.                                                    *)
(***************************************************************************)
\* number of parameters of a model
NumParams == 3
\* largest number of epochs a command line asks for beyond its start epoch
MaxEpochs == 2
\* len(train_loader)
NumBatches == 2
\* how often the process is stopped and resumed
MaxRestarts == 1
\* validation precisions are 0..MaxPrec
MaxPrec == 2

(***************************************************************************)
(* Python helpers.                                                         *)
(***************************************************************************)
Max(S) == CHOOSE x \in S : \A y \in S : y <= x

\* str.startswith
StartsWith(s, p) == Len(s) >= Len(p) /\ SubSeq(s, 1, Len(p)) = p

\* str.rfind: the highest 0-based index at which sub occurs in s, -1 if none
Rfind(s, sub) ==
    LET at == {k \in 0..(Len(s) - Len(sub)) : SubSeq(s, k + 1, k + Len(sub)) = sub}
    IN  IF at = {} THEN -1 ELSE Max(at)

\* os.path.join(dir, name), as the pair it denotes; a bare file name is
\* relative to the working directory "."
Join(dir, name) == <<dir, name>>
Bare(name) == <<".", name>>

Digit(d) == <<"0", "1", "2", "3", "4", "5", "6", "7", "8", "9">>[d + 1]

\* '%d' % n, for n >= 0
RECURSIVE FmtD(_)
FmtD(n) == IF n < 10 THEN Digit(n) ELSE FmtD(n \div 10) \o Digit(n % 10)

\* '%03d' % n, for n >= 0: zero-padded to at least three digits
Fmt03d(n) ==
    IF n < 10 THEN "00" \o FmtD(n)
    ELSE IF n < 100 THEN "0" \o FmtD(n)
    ELSE FmtD(n)

\* exact decimals: [m, e] is m * 10^-e
Dec(m, e) == [m |-> m, e |-> e]
\* 0.1 ** n
PowTenth(n) == Dec(1, n)
\* a * b
Times(a, b) == Dec(a.m * b.m, a.e + b.e)

\* the file system
Exists(fs, path) == path \in DOMAIN fs
WriteFile(fs, path, content) ==
    [p \in (DOMAIN fs) \cup {path} |-> IF p = path THEN content ELSE fs[p]]

CheckpointName == "checkpoint.pth.tar"
BestName == "model_best.pth.tar"
EpochName(e) == "epoch" \o Fmt03d(e) \o ".pth.tar"

(***************************************************************************)
(* main(), lines 141-172: create model, place it on the device(s).         *)
(***************************************************************************)
NoModel == [built |-> FALSE, named_parameters |-> <<>>, last |-> <<>>,
            state |-> 0, pretrained |-> FALSE]

\* the arch check of line 150
SupportedArch(arch) == StartsWith(arch, "resnet") \/ StartsWith(arch, "alexnet")

\* models.__dict__[args.arch](...): the constructor the imported module holds
Construct(pretrained) ==
    [built |-> TRUE, named_parameters |-> net.named, last |-> net.last,
     state |-> 0, pretrained |-> pretrained]

\* line 136
Distributed == args.world_size > 1

\* the names of named_parameters() once the whole model is the .module of a
\* (Distributed)DataParallel wrapper
Prefixed(named, prefix) ==
    [k \in 1..Len(named) |-> [named[k] EXCEPT !.name = prefix \o @]]

\* line 169: model.features becomes the .module of a DataParallel wrapper
FeaturesWrapped(named) ==
    [k \in 1..Len(named) |->
        IF StartsWith(named[k].name, "features.")
        THEN [named[k] EXCEPT
                 !.name = "features.module." \o SubSeq(@, Len("features.") + 1, Len(@))]
        ELSE named[k]]

\* lines 162-172: args.gpu is <<>> for None and <<g>> for GPU g; the parameter
\* objects stay the same, the wrappers change the names they are enumerated under
Place(m) ==
    IF args.gpu # <<>>
    THEN m
    ELSE IF Distributed
    THEN [m EXCEPT !.named_parameters = Prefixed(@, "module.")]
    ELSE IF StartsWith(args.arch, "alexnet") \/ StartsWith(args.arch, "vgg")
    THEN [m EXCEPT !.named_parameters = FeaturesWrapped(@)]
    ELSE [m EXCEPT !.named_parameters = Prefixed(@, "module.")]

\* variant: pretrained not checked
CreateModelErrorAnyPretrained ==
    IF args.algo = "None"
    THEN IF net.available THEN "" ELSE "KeyError"
    ELSE IF ~SupportedArch(args.arch) THEN "AssertionError"
         ELSE IF net.available THEN "" ELSE "KeyError"

\* the exception lines 142-160 raise, "" if they construct the model
CreateModelError ==
    IF args.algo = "None"
    THEN IF net.available THEN "" ELSE "KeyError"
    ELSE IF ~SupportedArch(args.arch) THEN "AssertionError"
         ELSE IF args.pretrained THEN "ValueError"
         ELSE IF net.available THEN "" ELSE "KeyError"

CreateModel ==
    /\ pc = "create_model"
    /\ IF CreateModelError = ""
       THEN /\ model' = Place(Construct(args.pretrained))
            /\ pc' = "classify"
            /\ err' = err
       ELSE /\ model' = model
            /\ pc' = "failed"
            /\ err' = CreateModelError
    /\ UNCHANGED <<argv, args, net, model_last_named_parameters,
                   model_nonlast_named_parameters, param_groups, lrs, optimizer,
                   aliased, best_prec1, epoch, i, grad, files, runs, events,
                   trained, ckpt_live>>

(***************************************************************************)
(* main(), lines 174-198: the last layer's parameters and the others.      *)
(***************************************************************************)
\* variant: tensors compared by value
IsSameValue(p, q) == p.val = q.val

\* `nparam[1] is p_last` (line 196): object identity
IsSame(p, q) == p.id = q.id

\* any([nparam[1] is p_last for p_last in model_last_parameters])
AnyIsLast(p, last_parameters) ==
    \E k \in 1..Len(last_parameters) : IsSame(p, last_parameters[k])

\* [nparam[1] for nparam in named]
ParamsOf(named) == [k \in 1..Len(named) |-> named[k].p]

\* lines 194-196
NonLastNamed(named, last_parameters) ==
    SelectSeq(named, LAMBDA nparam : ~AnyIsLast(nparam.p, last_parameters))

\* variant: vgg given a last layer too
LastLayerKnownVgg(arch) ==
    StartsWith(arch, "resnet") \/ StartsWith(arch, "alexnet") \/ StartsWith(arch, "vgg")

\* lines 174-190: the architectures for which some branch finds the last layer
LastLayerKnown(arch) == StartsWith(arch, "resnet") \/ StartsWith(arch, "alexnet")

Classify ==
    /\ pc = "classify"
    /\ IF LastLayerKnown(args.arch)
       THEN /\ model_last_named_parameters' = model.last
            /\ model_nonlast_named_parameters' =
                   NonLastNamed(model.named_parameters, ParamsOf(model.last))
            /\ pc' = "build_groups"
            /\ err' = err
       ELSE \* no branch of lines 174-190 assigns model_last_named_parameters
            /\ UNCHANGED <<model_last_named_parameters, model_nonlast_named_parameters>>
            /\ pc' = "failed"
            /\ err' = "UnboundLocalError"
    /\ UNCHANGED <<argv, args, net, model, param_groups, lrs, optimizer, aliased,
                   best_prec1, epoch, i, grad, files, runs, events, trained,
                   ckpt_live>>

(***************************************************************************)
(* main(), lines 202-238: parameter groups and the optimizer.              *)
(***************************************************************************)
\* line 219: nparam[0].rfind('bias') == len(nparam[0]) - 4
IsBiasName(name) == Rfind(name, "bias") = Len(name) - 4

\* lines 216-222: the loop that appends to bias_params or nonbias_params
RECURSIVE SplitBias(_, _, _)
SplitBias(named_params, bias_params, nonbias_params) ==
    IF named_params = <<>>
    THEN [bias |-> bias_params, nonbias |-> nonbias_params]
    ELSE LET nparam == Head(named_params)
         IN  IF IsBiasName(nparam.name)
             THEN SplitBias(Tail(named_params), Append(bias_params, nparam.p), nonbias_params)
             ELSE SplitBias(Tail(named_params), bias_params, Append(nonbias_params, nparam.p))

\* lines 215-227
Paramss(use_nsc, params, named_params) ==
    IF use_nsc
    THEN LET s == SplitBias(named_params, <<>>, <<>>) IN <<s.bias, s.nonbias>>
    ELSE <<params>>

\* variant: the flags of the two groups exchanged
UseNscsSwapped(use_nsc) == IF use_nsc THEN <<TRUE, FALSE>> ELSE <<FALSE>>

\* lines 224 and 227
UseNscs(use_nsc) == IF use_nsc THEN <<FALSE, TRUE>> ELSE <<FALSE>>

\* lines 229-235: the groups one iteration of the outer loop appends
GroupsOfSet(use_bm, use_nsc, params, named_params, lr) ==
    LET paramss == Paramss(use_nsc, params, named_params)
        use_nscs == UseNscs(use_nsc)
    IN  [k \in 1..Len(paramss) |->
            [params |-> paramss[k], lr |-> lr, batch_manhattan |-> use_bm,
             no_sign_change |-> use_nscs[k]]]

\* line 236: one base rate per appended group
LrsOfSet(use_nsc, lr) == [k \in 1..Len(UseNscs(use_nsc)) |-> lr]

\* the zip of lines 204-211: the non-last set first, the last set second
BuildParamGroups ==
    GroupsOfSet(args.batch_manhattan, args.no_sign_change,
                ParamsOf(model_nonlast_named_parameters),
                model_nonlast_named_parameters, args.lr)
    \o GroupsOfSet(args.last_layer_batch_manhattan, args.last_layer_no_sign_change,
                   ParamsOf(model_last_named_parameters),
                   model_last_named_parameters, args.llr)

BuildLrs ==
    LrsOfSet(args.no_sign_change, args.lr)
    \o LrsOfSet(args.last_layer_no_sign_change, args.llr)

NoOptimizer == [built |-> FALSE, param_groups |-> <<>>, momentum |-> 0]

BuildGroups ==
    /\ pc = "build_groups"
    /\ param_groups' = BuildParamGroups
    /\ lrs' = BuildLrs
    /\ optimizer' = [built |-> TRUE, param_groups |-> BuildParamGroups, momentum |-> 0]
    /\ aliased' = TRUE
    /\ pc' = "resume"
    /\ UNCHANGED <<argv, args, net, err, model, model_last_named_parameters,
                   model_nonlast_named_parameters, best_prec1, epoch, i, grad,
                   files, runs, events, trained, ckpt_live>>

(***************************************************************************)
(* main(), lines 240-253 and 333-335: resume from a checkpoint, evaluate.  *)
(***************************************************************************)
\* optimizer.state_dict(): the groups' options and sizes, and the momentum state
OptStateDict(opt) ==
    [param_groups |->
        [k \in 1..Len(opt.param_groups) |->
            [lr |-> opt.param_groups[k].lr,
             batch_manhattan |-> opt.param_groups[k].batch_manhattan,
             no_sign_change |-> opt.param_groups[k].no_sign_change,
             params |-> Len(opt.param_groups[k].params)]],
     momentum |-> opt.momentum]

\* optimizer.load_state_dict refuses a state whose groups do not line up
SameGroupShape(opt, sd) ==
    /\ Len(sd.param_groups) = Len(opt.param_groups)
    /\ \A k \in 1..Len(opt.param_groups) :
           sd.param_groups[k].params = Len(opt.param_groups[k].params)

\* optimizer.load_state_dict(sd): the saved options on the optimizer's own parameters
LoadOptState(opt, sd) ==
    [built |-> TRUE,
     param_groups |->
        [k \in 1..Len(opt.param_groups) |->
            [params |-> opt.param_groups[k].params,
             lr |-> sd.param_groups[k].lr,
             batch_manhattan |-> sd.param_groups[k].batch_manhattan,
             no_sign_change |-> sd.param_groups[k].no_sign_change]],
     momentum |-> sd.momentum]

\* line 242
ResumePath == Join(args.prefix, args.resume)

\* lines 333-337: where main() goes once the optimizer is ready
AfterSetup == IF args.evaluate THEN "done" ELSE "epoch_top"

\* variant: a missing checkpoint is reported and training starts from scratch
ResumeSilent ==
    /\ pc = "resume"
    /\ IF args.resume # "" /\ Exists(files, ResumePath)
       THEN LET checkpoint == files[ResumePath]
            IN  /\ args' = [args EXCEPT !.start_epoch = checkpoint.epoch]
                /\ best_prec1' = checkpoint.best_prec1
                /\ model' = [model EXCEPT !.state = checkpoint.state_dict]
                /\ IF SameGroupShape(optimizer, checkpoint.optimizer)
                   THEN /\ optimizer' = LoadOptState(optimizer, checkpoint.optimizer)
                        /\ aliased' = FALSE
                        /\ pc' = AfterSetup
                        /\ epoch' = checkpoint.epoch
                        /\ err' = err
                   ELSE /\ pc' = "failed"
                        /\ err' = "ValueError"
                        /\ UNCHANGED <<optimizer, aliased, epoch>>
       ELSE /\ pc' = AfterSetup
            /\ epoch' = args.start_epoch
            /\ UNCHANGED <<args, best_prec1, model, optimizer, aliased, err>>
    /\ UNCHANGED <<argv, net, model_last_named_parameters,
                   model_nonlast_named_parameters, param_groups, lrs, i, grad,
                   files, runs, events, trained, ckpt_live>>

Resume ==
    /\ pc = "resume"
    /\ IF args.resume = ""
       THEN /\ pc' = AfterSetup
            /\ epoch' = args.start_epoch
            /\ UNCHANGED <<args, best_prec1, model, optimizer, aliased, err>>
       ELSE IF Exists(files, ResumePath)
       THEN LET checkpoint == files[ResumePath]
            IN  /\ args' = [args EXCEPT !.start_epoch = checkpoint.epoch]
                /\ best_prec1' = checkpoint.best_prec1
                /\ model' = [model EXCEPT !.state = checkpoint.state_dict]
                /\ IF SameGroupShape(optimizer, checkpoint.optimizer)
                   THEN /\ optimizer' = LoadOptState(optimizer, checkpoint.optimizer)
                        /\ aliased' = FALSE
                        /\ pc' = AfterSetup
                        /\ epoch' = checkpoint.epoch
                        /\ err' = err
                   ELSE /\ pc' = "failed"
                        /\ err' = "ValueError"
                        /\ UNCHANGED <<optimizer, aliased, epoch>>
       ELSE /\ pc' = "failed"
            /\ err' = "IOError"
            /\ UNCHANGED <<args, best_prec1, model, optimizer, aliased, epoch>>
    /\ UNCHANGED <<argv, net, model_last_named_parameters,
                   model_nonlast_named_parameters, param_groups, lrs, i, grad,
                   files, runs, events, trained, ckpt_live>>

(***************************************************************************)
(* adjust_learning_rate, lines 485-489, and the loop head, lines 337-340.  *)
(***************************************************************************)
\* line 488: lr0 * (0.1 ** (epoch // lr_decay))
DecayedLr(lr0, ep, lr_decay) == Times(lr0, PowTenth(ep \div lr_decay))

\* variant: the decay applied to the group's current rate
AdjustCompounding(opt, ep, lr0s) ==
    [opt EXCEPT !.param_groups =
        [k \in 1..Len(opt.param_groups) |->
            IF k <= Len(lr0s)
            THEN [opt.param_groups[k] EXCEPT
                     !.lr = DecayedLr(opt.param_groups[k].lr, ep, args.lr_decay)]
            ELSE opt.param_groups[k]]]

\* the loop of lines 487-489 over zip(optimizer.param_groups, lr0s)
AdjustLearningRate(opt, ep, lr0s) ==
    [opt EXCEPT !.param_groups =
        [k \in 1..Len(opt.param_groups) |->
            IF k <= Len(lr0s)
            THEN [opt.param_groups[k] EXCEPT !.lr = DecayedLr(lr0s[k], ep, args.lr_decay)]
            ELSE opt.param_groups[k]]]

\* the learning rate of every group, in order
GroupLrs(opt) == [k \in 1..Len(opt.param_groups) |-> opt.param_groups[k].lr]

\* a history entry: what ran, for which epoch and batch, on which weights and rates
Event(op, ep, batch, state, rates) ==
    [op |-> op, epoch |-> ep, batch |-> batch, state |-> state, lrs |-> rates]

\* variant: the schedule applied only when the loop is entered
EpochTopFirstOnly ==
    /\ pc = "epoch_top"
    /\ IF epoch < args.epochs
       THEN /\ IF events = <<>>
               THEN /\ optimizer' = AdjustLearningRate(optimizer, epoch, lrs)
                    /\ events' = Append(events, Event("adjust", epoch, 0, model.state,
                                                       GroupLrs(optimizer')))
               ELSE UNCHANGED <<optimizer, events>>
            /\ param_groups' = IF aliased THEN optimizer'.param_groups ELSE param_groups
            /\ i' = 0
            /\ pc' = IF NumBatches > 0 THEN "forward" ELSE "validate"
       ELSE /\ pc' = "done"
            /\ UNCHANGED <<optimizer, param_groups, events, i>>
    /\ UNCHANGED <<argv, args, net, err, model, model_last_named_parameters,
                   model_nonlast_named_parameters, lrs, aliased, best_prec1, epoch,
                   grad, files, runs, trained, ckpt_live>>

EpochTop ==
    /\ pc = "epoch_top"
    /\ IF epoch < args.epochs
       THEN /\ optimizer' = AdjustLearningRate(optimizer, epoch, lrs)
            /\ param_groups' = IF aliased THEN optimizer'.param_groups ELSE param_groups
            /\ events' = Append(events, Event("adjust", epoch, 0, model.state, GroupLrs(optimizer')))
            /\ i' = 0
            /\ pc' = IF NumBatches > 0 THEN "forward" ELSE "validate"
       ELSE /\ pc' = "done"
            /\ UNCHANGED <<optimizer, param_groups, events, i>>
    /\ UNCHANGED <<argv, args, net, err, model, model_last_named_parameters,
                   model_nonlast_named_parameters, lrs, aliased, best_prec1, epoch,
                   grad, files, runs, trained, ckpt_live>>

(***************************************************************************)
(* train(), lines 361-393: one batch is forward, zero_grad, backward, step *)
(***************************************************************************)
Forward ==
    /\ pc = "forward"
    /\ events' = Append(events, Event("forward", epoch, i, model.state, GroupLrs(optimizer)))
    /\ pc' = "zero_grad"
    /\ UNCHANGED <<argv, args, net, err, model, model_last_named_parameters,
                   model_nonlast_named_parameters, param_groups, lrs, optimizer,
                   aliased, best_prec1, epoch, i, grad, files, runs, trained,
                   ckpt_live>>

ZeroGrad ==
    /\ pc = "zero_grad"
    \* zero_grad zeroes the buffers that exist; a .grad that is None stays None
    /\ grad' = IF grad = "none" THEN "none" ELSE "zero"
    /\ events' = Append(events, Event("zero_grad", epoch, i, model.state, GroupLrs(optimizer)))
    /\ pc' = "backward"
    /\ UNCHANGED <<argv, args, net, err, model, model_last_named_parameters,
                   model_nonlast_named_parameters, param_groups, lrs, optimizer,
                   aliased, best_prec1, epoch, i, files, runs, trained, ckpt_live>>

Backward ==
    /\ pc = "backward"
    /\ grad' = "fresh"
    /\ events' = Append(events, Event("backward", epoch, i, model.state, GroupLrs(optimizer)))
    /\ pc' = "step"
    /\ UNCHANGED <<argv, args, net, err, model, model_last_named_parameters,
                   model_nonlast_named_parameters, param_groups, lrs, optimizer,
                   aliased, best_prec1, epoch, i, files, runs, trained, ckpt_live>>

\* variant: only the first batch of an epoch updates the parameters
StepFirstBatchOnly ==
    /\ pc = "step"
    /\ IF i = 0
       THEN /\ model' = [model EXCEPT !.state = @ + 1]
            /\ optimizer' = [optimizer EXCEPT !.momentum = @ + 1]
            /\ events' = Append(events, Event("step", epoch, i, model.state + 1,
                                               GroupLrs(optimizer)))
       ELSE UNCHANGED <<model, optimizer, events>>
    /\ i' = i + 1
    /\ pc' = IF i + 1 < NumBatches THEN "forward" ELSE "validate"
    /\ UNCHANGED <<argv, args, net, err, model_last_named_parameters,
                   model_nonlast_named_parameters, param_groups, lrs, aliased,
                   best_prec1, epoch, grad, files, runs, trained, ckpt_live>>

\* line 393, and the loop of line 372 moving to the next batch
Step ==
    /\ pc = "step"
    /\ model' = [model EXCEPT !.state = @ + 1]
    /\ optimizer' = [optimizer EXCEPT !.momentum = @ + 1]
    /\ events' = Append(events, Event("step", epoch, i, model.state + 1, GroupLrs(optimizer)))
    /\ i' = i + 1
    /\ pc' = IF i + 1 < NumBatches THEN "forward" ELSE "validate"
    /\ UNCHANGED <<argv, args, net, err, model_last_named_parameters,
                   model_nonlast_named_parameters, param_groups, lrs, aliased,
                   best_prec1, epoch, grad, files, runs, trained, ckpt_live>>

(***************************************************************************)
(* main(), lines 345-358, and save_checkpoint, lines 455-463.              *)
(***************************************************************************)
\* shutil.copyfile(src, dst) on a file system and the error so far
CopyFile(r, src, dst) ==
    IF r.err # "" THEN r
    ELSE IF Exists(r.files, src)
         THEN [files |-> WriteFile(r.files, dst, r.files[src]), err |-> ""]
         ELSE [files |-> r.files, err |-> "FileNotFoundError"]

\* line 460-461
SaveThisEpoch(ep) ==
    IF args.save_every_epoch
    THEN TRUE
    ELSE args.save_every_n_epochs > 0 /\ ep % args.save_every_n_epochs = 0

\* save_checkpoint(state, is_best, epoch): the file system it leaves and the error it raises
SaveCheckpoint(fs, state, is_best, ep) ==
    LET saved == [files |-> WriteFile(fs, Join(args.prefix, CheckpointName), state),
                  err |-> ""]
        best == IF is_best
                THEN CopyFile(saved, Bare(CheckpointName), Join(args.prefix, BestName))
                ELSE saved
    IN  IF SaveThisEpoch(ep)
        THEN CopyFile(best, Bare(CheckpointName), Join(args.prefix, EpochName(ep)))
        ELSE best

\* variant: the epoch just trained saved as the epoch to resume at
SaveDictSameEpoch(ep, best) ==
    [epoch |-> ep, arch |-> args.arch, state_dict |-> model.state,
     best_prec1 |-> best, optimizer |-> OptStateDict(optimizer)]

\* lines 351-357
SaveDict(ep, best) ==
    [epoch |-> ep + 1, arch |-> args.arch, state_dict |-> model.state,
     best_prec1 |-> best, optimizer |-> OptStateDict(optimizer)]

ValidateSave ==
    /\ pc = "validate"
    /\ \E prec1 \in 0..MaxPrec :
          LET is_best == prec1 > best_prec1
              best == IF prec1 > best_prec1 THEN prec1 ELSE best_prec1
              r == SaveCheckpoint(files, SaveDict(epoch, best), is_best, epoch)
          IN  /\ best_prec1' = best
              /\ files' = r.files
              /\ events' = Append(events, Event("save", epoch, i, model.state, GroupLrs(optimizer)))
              /\ trained' = Append(trained, epoch)
              /\ ckpt_live' = [epoch |-> epoch + 1, best_prec1 |-> best,
                               state_dict |-> model.state, optimizer |-> optimizer,
                               prec1 |-> prec1, is_best |-> is_best,
                               best_before |-> best_prec1]
              /\ IF r.err = ""
                 THEN /\ epoch' = epoch + 1
                      /\ pc' = "epoch_top"
                      /\ err' = err
                 ELSE /\ epoch' = epoch
                      /\ pc' = "failed"
                      /\ err' = r.err
    /\ UNCHANGED <<argv, args, net, model, model_last_named_parameters,
                   model_nonlast_named_parameters, param_groups, lrs, optimizer,
                   aliased, i, grad, runs>>

(***************************************************************************)
(* The process is stopped once a checkpoint is written and started again   *)
(* with the same command line plus --resume checkpoint.pth.tar.            *)
(***************************************************************************)
NoCheckpoint == [epoch |-> -1, best_prec1 |-> 0, state_dict |-> 0, optimizer |-> NoOptimizer,
                 prec1 |-> 0, is_best |-> FALSE, best_before |-> 0]

CheckpointWritten ==
    IF pc = "epoch_top"
    THEN events # <<>> /\ events[Len(events)].op = "save"
    ELSE pc = "failed" /\ err = "FileNotFoundError"

StopAndResume ==
    /\ CheckpointWritten
    /\ runs < MaxRestarts
    /\ runs' = runs + 1
    /\ args' = [argv EXCEPT !.resume = CheckpointName]
    /\ pc' = "create_model"
    /\ err' = ""
    /\ model' = NoModel
    /\ model_last_named_parameters' = <<>>
    /\ model_nonlast_named_parameters' = <<>>
    /\ param_groups' = <<>>
    /\ lrs' = <<>>
    /\ optimizer' = NoOptimizer
    /\ aliased' = TRUE
    /\ best_prec1' = 0
    /\ epoch' = 0
    /\ i' = 0
    /\ grad' = "none"
    /\ events' = <<>>
    /\ UNCHANGED <<argv, net, files, trained, ckpt_live>>

(***************************************************************************)
(* Inputs: command lines, model zoos and initial file systems.             *)
(***************************************************************************)
\* a name with no dot is a parameter of the module itself, a dotted one
\* belongs to a submodule
IsOwn(name) == Rfind(name, ".") = -1

\* named_parameters() order: the module's own parameters, then its submodules'
OwnFirst(idx, locals) ==
    SelectSeq(idx, LAMBDA j : IsOwn(locals[j])) \o
    SelectSeq(idx, LAMBDA j : ~IsOwn(locals[j]))

\* the model a zoo entry constructs: parameter objects 1..NumParams, the last
\* n_last of them in the final layer (model.fc / model.classifier[-1]), which
\* is the last submodule; enumerated as named_parameters() does
MakeNet(locals, n_last, vals, available) ==
    LET nonlast == OwnFirst([j \in 1..(NumParams - n_last) |-> j], locals)
        inlast == OwnFirst([j \in 1..n_last |-> NumParams - n_last + j], locals)
        order == nonlast \o inlast
    IN  [available |-> available,
         named |-> [k \in 1..NumParams |->
                      [name |-> IF order[k] > NumParams - n_last
                                THEN "fc." \o locals[order[k]] ELSE locals[order[k]],
                       p |-> [id |-> order[k], val |-> vals[order[k]]]]],
         last |-> [k \in 1..n_last |->
                      [name |-> locals[inlast[k]],
                       p |-> [id |-> inlast[k], val |-> vals[inlast[k]]]]]]

NamePool == {"bias", "weight", "wgt", "features.0.bias_v"}

\* all tensors equal in value, or all different
ValPatterns == {[j \in 1..NumParams |-> 0], [j \in 1..NumParams |-> j]}

WideNets ==
    {MakeNet(l, n, v, TRUE) : l \in [1..NumParams -> NamePool], n \in 0..NumParams,
                              v \in ValPatterns}

PlainLocals == [j \in 1..NumParams |-> IF j % 2 = 1 THEN "weight" ELSE "bias"]

PlainNets == {MakeNet(PlainLocals, IF NumParams >= 2 THEN 2 ELSE 1,
                      [j \in 1..NumParams |-> j], a) : a \in BOOLEAN}

DefaultArgs ==
    [algo |-> "sign_symmetry", arch |-> "resnet18", pretrained |-> FALSE,
     batch_manhattan |-> FALSE, last_layer_batch_manhattan |-> FALSE,
     no_sign_change |-> FALSE, last_layer_no_sign_change |-> FALSE,
     lr |-> Dec(1, 1), llr |-> Dec(1, 1), lr_decay |-> 10,
     epochs |-> 90, start_epoch |-> 0, resume |-> "", evaluate |-> FALSE,
     prefix |-> ".", save_every_epoch |-> FALSE, save_every_n_epochs |-> -1,
     gpu |-> <<>>, world_size |-> 1]

\* a checkpoint some earlier process left behind
OldCheckpoint ==
    [epoch |-> 1, arch |-> "resnet18", state_dict |-> 7, best_prec1 |-> 1,
     optimizer |->
        [param_groups |->
            [k \in 1..2 |->
                [lr |-> Dec(1, 1), batch_manhattan |-> FALSE, no_sign_change |-> FALSE,
                 params |-> IF k = 1 THEN NumParams - (IF NumParams >= 2 THEN 2 ELSE 1)
                            ELSE (IF NumParams >= 2 THEN 2 ELSE 1)]],
         momentum |-> 7]]

NoFiles == [p \in {} |-> OldCheckpoint]

\* one short training run, so that every step of the program is exercised
SmokeArgs == {[DefaultArgs EXCEPT !.epochs = 1, !.prefix = "out", !.lr_decay = 1]}

\* command lines that vary what the parameter groups are built from
GroupArgs ==
    {[DefaultArgs EXCEPT !.batch_manhattan = bm, !.last_layer_batch_manhattan = lbm,
                         !.no_sign_change = nsc, !.last_layer_no_sign_change = lnsc,
                         !.llr = Dec(5, 2), !.epochs = 0,
                         !.gpu = dev[1], !.world_size = dev[2], !.arch = dev[3]]
        : bm \in BOOLEAN, lbm \in BOOLEAN, nsc \in BOOLEAN, lnsc \in BOOLEAN,
          dev \in {<<<<0>>, 1, "resnet18">>, <<<<>>, 1, "resnet18">>,
                   <<<<>>, 1, "alexnet">>, <<<<>>, 2, "alexnet">>}}

\* command lines that vary what startup accepts
StartupArgs ==
    {[DefaultArgs EXCEPT !.algo = algo, !.arch = arch, !.pretrained = pre,
                         !.resume = res, !.evaluate = ev,
                         !.no_sign_change = nsc, !.prefix = "out", !.epochs = 2]
        : algo \in {"None", "sign_symmetry", "feedback_alignment"},
          arch \in {"resnet18", "alexnet", "vgg16", "resnext50"},
          pre \in BOOLEAN, ev \in BOOLEAN, nsc \in BOOLEAN,
          res \in {"", CheckpointName, "missing.pth.tar"}}

\* command lines that vary the training run
TrainArgs ==
    {[DefaultArgs EXCEPT !.lr_decay = d, !.start_epoch = s, !.epochs = s + n,
                         !.no_sign_change = nsc, !.last_layer_no_sign_change = lnsc,
                         !.llr = Dec(5, 2), !.prefix = pre,
                         !.save_every_epoch = sv[1], !.save_every_n_epochs = sv[2]]
        : d \in {1, 2, 10}, s \in {0, 9, 24}, n \in 0..MaxEpochs,
          nsc \in BOOLEAN, lnsc \in BOOLEAN, pre \in {".", "out"},
          sv \in {<<FALSE, -1>>, <<TRUE, -1>>, <<FALSE, 2>>}}

InitWith(argvs, nets, filess) ==
    /\ argv \in argvs
    /\ args = argv
    /\ net \in nets
    /\ files \in filess
    /\ pc = "create_model"
    /\ err = ""
    /\ model = NoModel
    /\ model_last_named_parameters = <<>>
    /\ model_nonlast_named_parameters = <<>>
    /\ param_groups = <<>>
    /\ lrs = <<>>
    /\ optimizer = NoOptimizer
    /\ aliased = TRUE
    /\ best_prec1 = 0
    /\ epoch = 0
    /\ i = 0
    /\ grad = "none"
    /\ runs = 0
    /\ events = <<>>
    /\ trained = <<>>
    /\ ckpt_live = NoCheckpoint

InitSmoke == InitWith(SmokeArgs, {n \in PlainNets : n.available}, {NoFiles})

InitGroups == InitWith(GroupArgs, WideNets, {NoFiles})

InitStartup ==
    InitWith(StartupArgs, PlainNets,
             {NoFiles, WriteFile(NoFiles, Join("out", CheckpointName), OldCheckpoint)})

InitTrain ==
    InitWith(TrainArgs, {n \in PlainNets : n.available},
             {NoFiles, WriteFile(NoFiles, Bare(CheckpointName), OldCheckpoint)})

Next ==
    \/ CreateModel
    \/ Classify
    \/ BuildGroups
    \/ Resume
    \/ EpochTop
    \/ Forward
    \/ ZeroGrad
    \/ Backward
    \/ Step
    \/ ValidateSave
    \/ StopAndResume

\* parameter classification and group construction over many models
SpecGroups == (InitGroups \/ InitSmoke) /\ [][Next]_vars

\* what startup accepts and rejects
SpecStartup == (InitStartup \/ InitSmoke) /\ [][Next]_vars

\* the epoch loop, stopped and resumed
SpecTrain == InitTrain /\ [][Next]_vars

(***************************************************************************)
(* Properties.                                                             *)
(***************************************************************************)
\* the places <<g, k>> of the group list that hold the parameter object p
PlacesOf(p) ==
    {gk \in (1..Len(param_groups)) \X (1..NumParams) :
        /\ gk[2] <= Len(param_groups[gk[1]].params)
        /\ param_groups[gk[1]].params[gk[2]].id = p.id}

\* C1: once the groups are built, every parameter of model.named_parameters()
\* is held by exactly one place of exactly one group's 'params', and every
\* group member is a parameter of the model; a parameter is in a last-layer
\* group exactly when it is one of the last layer's objects, whatever other
\* parameters share its value or its name.
PartitionInvariant ==
    optimizer.built =>
        /\ \A n \in 1..Len(model.named_parameters) :
               Cardinality(PlacesOf(model.named_parameters[n].p)) = 1
        /\ \A g \in 1..Len(param_groups) : \A k \in 1..Len(param_groups[g].params) :
               \E n \in 1..Len(model.named_parameters) :
                   model.named_parameters[n].p = param_groups[g].params[k]
        /\ \A g \in 1..Len(param_groups) : Len(param_groups[g].params) <= NumParams
        /\ \A n \in 1..Len(model.named_parameters) :
               LET p == model.named_parameters[n].p
                   inLastTier == \E gk \in PlacesOf(p) :
                                    gk[1] > (IF args.no_sign_change THEN 2 ELSE 1)
               IN  inLastTier <=> (\E l \in 1..Len(model.last) : model.last[l].p.id = p.id)

\* C1 witness: both sets split, four groups, a last-layer and a non-last
\* parameter of equal value
PartitionWitness ==
    /\ optimizer.built
    /\ Len(param_groups) = 4
    /\ Len(model_last_named_parameters) >= 1
    /\ Len(model_nonlast_named_parameters) >= 1
    /\ model_last_named_parameters[1].p.val = model_nonlast_named_parameters[1].p.val

\* a group without its (rewritten every epoch) learning rate
Shape(g) == [params |-> g.params, batch_manhattan |-> g.batch_manhattan,
             no_sign_change |-> g.no_sign_change]

\* what the Group Builder is to emit for one set
ExpectedOfSet(use_bm, use_nsc, named) ==
    IF use_nsc
    THEN <<[params |-> ParamsOf(SelectSeq(named, LAMBDA np : IsBiasName(np.name))),
            batch_manhattan |-> use_bm, no_sign_change |-> FALSE],
           [params |-> ParamsOf(SelectSeq(named, LAMBDA np : ~IsBiasName(np.name))),
            batch_manhattan |-> use_bm, no_sign_change |-> TRUE]>>
    ELSE <<[params |-> ParamsOf(named), batch_manhattan |-> use_bm,
            no_sign_change |-> FALSE]>>

ExpectedShapes ==
    ExpectedOfSet(args.batch_manhattan, args.no_sign_change,
                  model_nonlast_named_parameters)
    \o ExpectedOfSet(args.last_layer_batch_manhattan, args.last_layer_no_sign_change,
                     model_last_named_parameters)

ExpectedRates ==
    (IF args.no_sign_change THEN <<args.lr, args.lr>> ELSE <<args.lr>>)
    \o (IF args.last_layer_no_sign_change THEN <<args.llr, args.llr>> ELSE <<args.llr>>)

\* str.endswith
EndsWith(s, suffix) ==
    Len(s) >= Len(suffix) /\ SubSeq(s, Len(s) - Len(suffix) + 1, Len(s)) = suffix

\* the names under which the parameter object p is enumerated
NamesOf(p) ==
    {model.named_parameters[n].name :
        n \in {m \in 1..Len(model.named_parameters) : model.named_parameters[m].p.id = p.id}}
    \cup {model_last_named_parameters[n].name :
        n \in {m \in 1..Len(model_last_named_parameters) :
                  model_last_named_parameters[m].p.id = p.id}}

\* C2: the group list is the non-last set's groups followed by the last set's;
\* a set gives one group (no_sign_change off) or its bias subset with
\* no_sign_change=false followed by its non-bias subset with no_sign_change=true;
\* each group is emitted with its set's learning rate and batch_manhattan flag,
\* and no group holding a parameter named ...bias has no_sign_change=true.
GroupBuilderOutput ==
    optimizer.built =>
        /\ [g \in 1..Len(param_groups) |-> Shape(param_groups[g])] = ExpectedShapes
        /\ lrs = ExpectedRates
        /\ pc = "resume" => GroupLrs(optimizer) = ExpectedRates
        /\ pc = "resume" => optimizer.param_groups = param_groups
        /\ \A g \in 1..Len(param_groups) : \A k \in 1..Len(param_groups[g].params) :
               (\E nm \in NamesOf(param_groups[g].params[k]) : EndsWith(nm, "bias"))
                   => ~param_groups[g].no_sign_change

\* C2 witness: both sets split, the two rates differ, and bias and non-bias
\* groups of the last set are both inhabited
GroupBuilderWitness ==
    /\ pc = "resume"
    /\ args.no_sign_change /\ args.last_layer_no_sign_change
    /\ args.batch_manhattan /\ ~args.last_layer_batch_manhattan
    /\ args.lr # args.llr
    /\ Len(param_groups) = 4
    /\ Len(param_groups[3].params) >= 1
    /\ Len(param_groups[4].params) >= 1
    /\ Len(param_groups[2].params) >= 1

\* the groups of one set, when that set's no-sign-change flag is on
SplitGroupsOf(last) ==
    IF last
    THEN IF args.last_layer_no_sign_change
         THEN <<Len(param_groups) - 1, Len(param_groups)>> ELSE <<>>
    ELSE IF args.no_sign_change THEN <<1, 2>> ELSE <<>>

InGroup(g, p) == \E k \in 1..Len(param_groups[g].params) : param_groups[g].params[k].id = p.id

RoutedBySuffix(last, named) ==
    LET gs == SplitGroupsOf(last)
    IN  gs # <<>> =>
            \A n \in 1..Len(named) :
                /\ InGroup(gs[1], named[n].p) <=> EndsWith(named[n].name, "bias")
                /\ InGroup(gs[2], named[n].p) <=> ~EndsWith(named[n].name, "bias")

\* C4 (as claimed): when no-sign-change is requested for a set, a parameter of
\* the set is in the bias subset iff its name ends with 'bias', and in the
\* non-bias subset otherwise, whatever the length of its name.
BiasRoutedBySuffix ==
    optimizer.built =>
        /\ RoutedBySuffix(FALSE, model_nonlast_named_parameters)
        /\ RoutedBySuffix(TRUE, model_last_named_parameters)

(***************************************************************************)
(* The schedule.                                                           *)
(***************************************************************************)
\* positions of train() and of the validation that follows it
InEpoch == pc \in {"forward", "zero_grad", "backward", "step", "validate"}

\* the base rate of the tier the k-th group belongs to
TierRate(k) ==
    IF k <= (IF args.no_sign_change THEN 2 ELSE 1) THEN args.lr ELSE args.llr

NumGroups ==
    (IF args.no_sign_change THEN 2 ELSE 1)
    + (IF args.last_layer_no_sign_change THEN 2 ELSE 1)

\* q = floor(e / d), stated without division
IsFloorOf(q, e, d) == q * d <= e /\ e < (q + 1) * d

\* the rate is base * 0.1^q
IsDecayed(rate, base, q) == rate.m = base.m /\ rate.e = base.e + q

\* C3: after adjust_learning_rate(optimizer, e, lrs), every group (both groups
\* of a split included) has its own tier's base rate times 0.1^floor(e / D),
\* whatever its rate was before and whichever epochs were set before; base 0.1
\* with D = 10 gives 0.1 at epochs 0 and 9, 0.01 at 10 and 0.001 at 25.
ScheduleIsPureFunctionOfEpoch ==
    InEpoch =>
        /\ Len(optimizer.param_groups) = NumGroups
        /\ \A k \in 1..Len(optimizer.param_groups) :
               \E q \in 0..epoch :
                   /\ IsFloorOf(q, epoch, args.lr_decay)
                   /\ IsDecayed(optimizer.param_groups[k].lr, TierRate(k), q)
        /\ (args.lr_decay = 10 /\ args.lr = Dec(1, 1)) =>
               /\ epoch \in {0, 9} => optimizer.param_groups[1].lr = Dec(1, 1)
               /\ epoch = 10 => optimizer.param_groups[1].lr = Dec(1, 2)
               /\ epoch = 25 => optimizer.param_groups[1].lr = Dec(1, 3)

\* C3 witness: a resumed process, whose groups came out of the checkpoint with
\* the rates of epoch 24, trains epoch 25 with D = 10 and four groups
ScheduleWitness ==
    /\ pc = "forward"
    /\ runs = 1
    /\ epoch = 25
    /\ args.lr_decay = 10
    /\ Len(optimizer.param_groups) = 4
    /\ optimizer.param_groups[1].lr = Dec(1, 3)
    /\ optimizer.param_groups[4].lr = Dec(5, 4)

(***************************************************************************)
(* Order of the schedule, the steps and the checkpoints.                   *)
(***************************************************************************)
\* the index of the last "adjust" before position k of the history, 0 if none
LastAdjustBefore(k) ==
    LET js == {j \in 1..(k - 1) : events[j].op = "adjust"}
    IN  IF js = {} THEN 0 ELSE Max(js)

AdjustsFor(e) == {k \in 1..Len(events) : events[k].op = "adjust" /\ events[k].epoch = e}

\* C5: in a run, the schedule is applied once for every epoch the run enters,
\* first for start_epoch and afterwards right after the checkpoint of the epoch
\* before; every later event of an epoch, its optimizer steps included, follows
\* that epoch's schedule update and runs with the rates it computed; a run that
\* completes has applied it exactly once for every epoch of [start_epoch, epochs).
ScheduleBeforeSteps ==
    /\ \A k \in 1..Len(events) :
          IF events[k].op = "adjust"
          THEN /\ Cardinality(AdjustsFor(events[k].epoch)) = 1
               /\ IF k = 1
                  THEN events[k].epoch = args.start_epoch
                  ELSE /\ events[k - 1].op = "save"
                       /\ events[k - 1].epoch = events[k].epoch - 1
          ELSE LET j == LastAdjustBefore(k)
               IN  /\ j > 0
                   /\ events[j].epoch = events[k].epoch
                   /\ events[j].lrs = events[k].lrs
    /\ InEpoch => AdjustsFor(epoch) # {}
    /\ pc = "done" /\ ~args.evaluate =>
          \A e \in args.start_epoch..(args.epochs - 1) : Cardinality(AdjustsFor(e)) = 1

\* C5 witness: a run of two epochs has completed
ScheduleBeforeStepsWitness ==
    /\ pc = "done"
    /\ args.epochs = args.start_epoch + 2
    /\ Cardinality({k \in 1..Len(events) : events[k].op = "adjust"}) = 2
    /\ Cardinality({k \in 1..Len(events) : events[k].op = "step"}) = 2 * NumBatches

\* C6: the history of train() is, batch after batch, forward, zero_grad,
\* backward, step, each once and in that order; the forward pass of a batch
\* reads the weights its predecessor's step left; no batch goes without its
\* step; and a checkpoint is written only after the last batch's step.
OneStepPerBatch ==
    /\ \A k \in 1..Len(events) :
          LET ev == events[k]
              prev == events[k - 1]
          IN  /\ ev.op = "forward" =>
                    /\ k > 1
                    /\ IF ev.batch = 0
                       THEN prev.op = "adjust"
                       ELSE prev.op = "step" /\ prev.batch = ev.batch - 1
                    /\ prev.epoch = ev.epoch
                    /\ ev.state = prev.state
              /\ ev.op = "zero_grad" =>
                    k > 1 /\ prev.op = "forward" /\ prev.batch = ev.batch
                          /\ prev.epoch = ev.epoch
              /\ ev.op = "backward" =>
                    k > 1 /\ prev.op = "zero_grad" /\ prev.batch = ev.batch
                          /\ prev.epoch = ev.epoch
              /\ ev.op = "step" =>
                    /\ k > 1 /\ prev.op = "backward" /\ prev.batch = ev.batch
                    /\ prev.epoch = ev.epoch
                    /\ ev.state = prev.state + 1
              /\ ev.op = "save" =>
                    /\ k > 1
                    /\ prev.epoch = ev.epoch
                    /\ IF NumBatches = 0 THEN prev.op = "adjust"
                       ELSE prev.op = "step" /\ prev.batch = NumBatches - 1
                    /\ ev.state = prev.state
                    /\ Cardinality({j \in 1..k : events[j].op = "step"
                                                  /\ events[j].epoch = ev.epoch}) = NumBatches
    /\ pc = "forward" => (events # <<>> /\ events[Len(events)].op \in {"adjust", "step"})
    /\ pc = "validate" /\ NumBatches > 0 =>
          (events[Len(events)].op = "step" /\ i = NumBatches)
    /\ events # <<>> => model.state = events[Len(events)].state

\* C6 witness: an epoch of NumBatches batches has been trained and saved
OneStepPerBatchWitness ==
    /\ pc = "epoch_top"
    /\ Len(events) = 4 * NumBatches + 2
    /\ events[Len(events)].op = "save"
    /\ events[Len(events) - 1].op = "step"

(***************************************************************************)
(* Resuming.                                                               *)
(***************************************************************************)
SavesOfThisRun == Cardinality({k \in 1..Len(events) : events[k].op = "save"})

\* C7: over a run stopped after a checkpoint and resumed from it, the epochs
\* trained are start_epoch, start_epoch+1, ... with none repeated or skipped;
\* the resumed process enters the loop at the epoch after the saved one with
\* the saved best metric, weights and optimizer state, applies in each epoch
\* the rates an uninterrupted run applies, and when it completes all epochs
\* below `epochs` have been trained once.
ResumeContinuity ==
    /\ \A k \in 1..Len(trained) : trained[k] = argv.start_epoch + k - 1
    /\ (runs > 0 /\ pc = "epoch_top" /\ events = <<>>) =>
          /\ trained # <<>>
          /\ epoch = trained[Len(trained)] + 1
          /\ epoch = ckpt_live.epoch
          /\ args.start_epoch = epoch
          /\ best_prec1 = ckpt_live.best_prec1
          /\ model.state = ckpt_live.state_dict
          /\ optimizer = ckpt_live.optimizer
    /\ (runs > 0 /\ events # <<>>) =>
          events[1].epoch = argv.start_epoch + Len(trained) - SavesOfThisRun
    /\ (runs > 0 /\ InEpoch) =>
          GroupLrs(optimizer) =
              [k \in 1..Len(lrs) |-> DecayedLr(TierRate(k), epoch, argv.lr_decay)]
    /\ (runs > 0 /\ pc = "done") =>
          Len(trained) = IF argv.epochs > argv.start_epoch
                         THEN argv.epochs - argv.start_epoch ELSE 0

\* C7 witness: a process resumed after the first of two epochs has finished the second
ResumeContinuityWitness ==
    /\ runs = 1
    /\ pc = "done"
    /\ Len(trained) = 2
    /\ SavesOfThisRun = 1
    /\ best_prec1 > 0

(***************************************************************************)
(* What startup rejects.                                                   *)
(***************************************************************************)
Untouched ==
    /\ param_groups = <<>>
    /\ lrs = <<>>
    /\ ~optimizer.built
    /\ events = <<>>
    /\ trained = <<>>

\* C8: with an architecture that is neither resnet* nor alexnet*, whatever the
\* algorithm option ('None' included), the process gets no further than the
\* search for the last layer: it ends in an error raised by the configuration,
\* with no parameter group, no optimizer and no training step.
UnsupportedArchRejected ==
    ~(StartsWith(argv.arch, "resnet") \/ StartsWith(argv.arch, "alexnet")) =>
        /\ pc \in {"create_model", "classify", "failed"}
        /\ pc = "classify" => argv.algo = "None"
        /\ pc = "failed" => err \in {"AssertionError", "KeyError", "UnboundLocalError"}
        /\ Untouched

\* C8 witness: the reference zoo has built a vgg16 and startup has failed on it
UnsupportedArchWitness ==
    /\ argv.algo = "None"
    /\ argv.arch = "vgg16"
    /\ model.built
    /\ pc = "failed"
    /\ err = "UnboundLocalError"

\* C9: pretrained together with an algorithm other than 'None' ends startup in
\* an error before a model, a parameter group or an optimizer exists and before
\* any training step; with 'None' the pretrained model is constructed.
PretrainedExclusive ==
    /\ (argv.pretrained /\ argv.algo # "None") =>
          /\ pc \in {"create_model", "failed"}
          /\ pc = "failed" => err \in {"ValueError", "AssertionError"}
          /\ ~model.built
          /\ Untouched
    /\ (argv.pretrained /\ argv.algo = "None" /\ net.available /\ pc # "create_model") =>
          (model.built /\ model.pretrained)

\* C9 witness: a supported architecture, sign_symmetry and pretrained: ValueError
PretrainedExclusiveWitness ==
    /\ argv.pretrained
    /\ argv.algo = "sign_symmetry"
    /\ argv.arch = "alexnet"
    /\ pc = "failed"
    /\ err = "ValueError"

\* C10: with a resume path at which (under the prefix) no file exists, the
\* process ends in an IOError when it comes to resume, with start epoch, best
\* metric, weights and optimizer state as they were, and with no schedule
\* update, optimizer step or checkpoint write before or after.
MissingCheckpointFailsFast ==
    (args.resume # "" /\ ~Exists(files, Join(args.prefix, args.resume))) =>
        /\ pc \in {"create_model", "classify", "build_groups", "resume", "failed"}
        /\ (pc = "failed" /\ optimizer.built) => err = "IOError"
        /\ args.start_epoch = argv.start_epoch
        /\ best_prec1 = 0
        /\ model.state = 0
        /\ optimizer.momentum = 0
        /\ optimizer.built => (optimizer.param_groups = param_groups /\ aliased)
        /\ events = <<>>
        /\ trained = <<>>
        /\ ~Exists(files, Join(args.prefix, CheckpointName))
              \/ files[Join(args.prefix, CheckpointName)] = OldCheckpoint

\* C10 witness: the optimizer was built and the missing file ended the process
MissingCheckpointWitness ==
    /\ args.resume = "missing.pth.tar"
    /\ Exists(files, Join(args.prefix, CheckpointName))
    /\ optimizer.built
    /\ pc = "failed"
    /\ err = "IOError"

(***************************************************************************)
(* The copies save_checkpoint makes.                                       *)
(***************************************************************************)
\* save_checkpoint(save_dict, is_best, epoch) of the epoch before has returned
SaveReturned ==
    pc = "epoch_top" /\ events # <<>> /\ events[Len(events)].op = "save"

HoldsAt(name, state) ==
    Exists(files, Join(args.prefix, name)) /\ files[Join(args.prefix, name)] = state

\* C11 (as claimed): whatever the prefix directory and the epoch, once
\* save_checkpoint returns, checkpoint.pth.tar under the prefix holds the state
\* saved; so does model_best.pth.tar under the prefix if is_best, and so does
\* epochNNN.pth.tar under the prefix if save_every_epoch is set or
\* save_every_n_epochs > 0 divides the epoch; is_best is exactly
\* prec1 > best_prec1, and best_prec1 does not decrease.
CopiesHoldSavedState ==
    SaveReturned =>
        LET state == SaveDict(epoch - 1, best_prec1)
        IN  /\ HoldsAt(CheckpointName, state)
            /\ ckpt_live.is_best => HoldsAt(BestName, state)
            /\ SaveThisEpoch(epoch - 1) => HoldsAt(EpochName(epoch - 1), state)
            /\ ckpt_live.is_best <=> (ckpt_live.prec1 > ckpt_live.best_before)
            /\ best_prec1 >= ckpt_live.best_before
====
